---- MODULE Spec2Model ----
(***************************************************************************)
(* Hotel front-desk dashboard (project-aurora): the reservation / room     *)
(* lifecycle as driven by the React hooks and pages over the remote data   *)
(* store.  The store holds the rows; every operator (a browser tab) holds  *)
(* the lists its hooks loaded at their last successful refresh and at most *)
(* one handler in flight.  Every await of a handler is one step: a request *)
(* is applied by the store atomically and may fail without effect.         *)
(***************************************************************************)
EXTENDS Integers, Sequences, FiniteSets, TLC

\* ------------------------------------------------------------------ bounds
MaxReservations == 2
MaxDate == 3
MaxCalls == 2

\* --------------------------------------------------------------- universes
Operators == {"op1", "op2"}
RoomIds == {"r1", "r2"}
GuestIds == {"g1", "g2"}
Dates == 1..MaxDate
Prices == {100, 200}
MaxNow == 2 * MaxDate + 1

RESERVATION_STATUSES == {"booked", "checked_in", "checked_out", "cancelled", "no_show"}
ROOM_STATUSES == {"available", "occupied", "cleaning", "maintenance"}

VARIABLES
  rooms,            \* store: rooms table, id -> row
  guests,           \* store: guests table, id -> row
  reservations,     \* store: reservations table, a sequence; the id is the index
  now,              \* the instant, in half days since the epoch
  tz,               \* the caller's offset from UTC, in half days
  page,             \* per operator: the page the tab shows
  pc,               \* per operator: the await the handler in flight is at
  args,             \* per operator: the arguments of the call in flight
  trace,            \* per operator: the store requests the call in flight has made
  ended,            \* the call that ended in the last step, if one did
  calls,            \* the number of handler calls made so far
  reservationsList, \* per operator: useReservations' reservations state
  arrivals,         \* per operator: useTodayArrivals' arrivals state
  departures,       \* per operator: useDepartures' departures state
  formRooms,        \* per operator: the Reservas page's rooms state (form selects)
  guestsList,       \* per operator: useGuests' guests state
  roomMap,          \* per operator: useRoomMap's rooms state
  loading,          \* per operator: useTodayArrivals' loading state
  error,            \* per operator: useTodayArrivals' error state
  processingId,     \* per operator: the Hoy page's processingId state (0 is null)
  inFlight,         \* per operator: the Hoy handlers in flight when clicks overlap
  search,           \* per operator: useGuests' search state
  refreshes,        \* per operator: the refreshes useGuests has started, in order
  users,            \* store: users table, a sequence of rows
  session,          \* AuthProvider's session state (0 is null)
  currentUser,      \* AuthProvider's currentUser state (0 is null)
  pending           \* AuthProvider's callbacks, in the order they were scheduled

vars == <<rooms, guests, reservations, now, tz, page, pc, args, trace, ended, calls,
          reservationsList, arrivals, departures, formRooms, guestsList, roomMap,
          loading, error, processingId, inFlight, search, refreshes,
          users, session, currentUser, pending>>

store == <<rooms, guests, reservations>>
clock == <<now, tz>>
\* the state of AuthProvider and the users table
auth == <<users, session, currentUser, pending>>
\* the state of overlapping handlers and refreshes
overlapping == <<inFlight, search, refreshes>>
\* the state of the hooks
lists == <<reservationsList, arrivals, departures, formRooms, guestsList, roomMap,
           loading, error>>

\* ------------------------------------------------------------------ helpers
ReservationIds == DOMAIN reservations

\* new Date().toISOString().split("T")[0]: the UTC calendar date
utcDate == now \div 2
\* format(new Date(), "yyyy-MM-dd"): the caller's local calendar date
localDate == (now + tz) \div 2

isValidReservationStatus(status) == status \in RESERVATION_STATUSES

parseStatus(status) == IF isValidReservationStatus(status) THEN status ELSE "booked"

EmptyList == [id \in {} |-> 0]

\* text is a sequence of characters; null is a text of its own
Chars == {"a", "@", ".", " "}
Null == <<"null">>

NoArgs == [op |-> "none", rid |-> 0, room |-> "none", guest |-> "none",
           ci |-> 0, co |-> 0, price |-> 0, final |-> 0, discount |-> 0,
           status |-> "none", today |-> 0,
           number |-> <<>>, type |-> <<>>, name |-> <<>>, email |-> <<>>]

NoCall == [by |-> "none", args |-> NoArgs, outcome |-> "none", trace |-> <<>>]

\* the handlers of the Hoy page: each sets processingId to the reservation's id,
\* awaits the hook's action in a try block and resets processingId in finally
HoyHandlers == {"checkIn", "checkOut", "markNoShow"}

\* a handler that resets processingId only after a success
Ends_withoutFinally(o, a, tr, outcome) ==
  /\ pc' = [pc EXCEPT ![o] = "idle"]
  /\ args' = [args EXCEPT ![o] = NoArgs]
  /\ trace' = [trace EXCEPT ![o] = <<>>]
  /\ ended' = [by |-> o, args |-> a, outcome |-> outcome, trace |-> tr]
  /\ processingId' = [processingId EXCEPT ![o] =
       IF outcome = "ok" \/ a.op \notin HoyHandlers THEN 0 ELSE a.rid]

\* the call of operator o ends (returns or throws): nothing of it stays in flight
Ends(o, a, tr, outcome) ==
  /\ pc' = [pc EXCEPT ![o] = "idle"]
  /\ args' = [args EXCEPT ![o] = NoArgs]
  /\ trace' = [trace EXCEPT ![o] = <<>>]
  /\ ended' = [by |-> o, args |-> a, outcome |-> outcome, trace |-> tr]
  /\ processingId' = [processingId EXCEPT ![o] = 0]

\* the call of operator o awaits its next request
Goes(o, step, a, tr) ==
  /\ pc' = [pc EXCEPT ![o] = step]
  /\ args' = [args EXCEPT ![o] = a]
  /\ trace' = [trace EXCEPT ![o] = tr]
  /\ ended' = NoCall
  /\ processingId' = [processingId EXCEPT ![o] = IF a.op \in HoyHandlers THEN a.rid ELSE 0]

\* a step of no call
Quiet == ended' = NoCall /\ UNCHANGED <<pc, args, trace, calls, processingId>>

\* a handler is called
Starts(o) == pc[o] = "idle" /\ calls < MaxCalls /\ calls' = calls + 1

\* a handler in flight resumes at the await it is at
Resumes(o, step) == pc[o] = step /\ UNCHANGED calls

\* ------------------------------------------------------------ store queries
\* .from("reservations").select(...).eq("check_in_date", today), parsed by parseArrival
ArrivalsQuery ==
  [id \in {i \in ReservationIds : reservations[i].check_in_date = localDate} |->
     [roomId |-> reservations[id].room_id,
      status |-> parseStatus(reservations[id].status)]]

\* .from("reservations").select(...).eq("check_out_date", today), built by buildDepartureItem
DeparturesQuery ==
  [id \in {i \in ReservationIds : reservations[i].check_out_date = localDate} |->
     [roomId |-> reservations[id].room_id,
      status |-> parseStatus(reservations[id].status)]]

\* buildReservationListItem: roomMap and guestMap hold the active rooms and guests
buildReservationListItem(id) ==
  [id |-> id,
   roomNumber |-> IF rooms[reservations[id].room_id].is_active
                  THEN rooms[reservations[id].room_id].number ELSE <<>>,
   guestName |-> IF guests[reservations[id].guest_id].is_active
                 THEN guests[reservations[id].guest_id].name ELSE <<>>,
   checkInDate |-> reservations[id].check_in_date,
   status |-> parseStatus(reservations[id].status),
   finalPrice |-> reservations[id].final_price]

\* .from("reservations").select(...).order("check_in_date", {ascending: false}), then
\* the active rooms and guests, built by buildReservationListItem: the results the
\* store may return (it orders rows of equal check_in_date as it likes)
ReservationsQuery ==
  {[k \in DOMAIN q |-> buildReservationListItem(q[k])] :
     q \in {x \in [ReservationIds -> ReservationIds] :
              /\ \A i, j \in ReservationIds : i # j => x[i] # x[j]
              /\ \A i, j \in ReservationIds :
                   i < j => reservations[x[i]].check_in_date >= reservations[x[j]].check_in_date}}

\* .from("rooms").select("*"): the rows the reservation form offers
RoomsQuery == [r \in RoomIds |-> [base_price |-> rooms[r].base_price]]

\* .from("rooms").select(...).eq("is_active", true), parsed by parseRoom
RoomMapQuery ==
  [r \in {x \in RoomIds : rooms[x].is_active} |-> [status |-> rooms[r].status]]

\* a listing that does not filter the archived guests
GuestsQuery_all == GuestIds

\* .from("guests").select("*").eq("is_active", true)
GuestsQuery == {g \in GuestIds : guests[g].is_active}

\* ------------------------------------------------------------ hook refreshes
refreshArrivals(o, ok) ==
  /\ arrivals' = IF ok THEN [arrivals EXCEPT ![o] = ArrivalsQuery] ELSE arrivals
  /\ error' = [error EXCEPT ![o] = IF ok THEN "undefined" ELSE "load_error"]
  /\ loading' = [loading EXCEPT ![o] = FALSE]

refreshDepartures(o, ok) ==
  departures' = IF ok THEN [departures EXCEPT ![o] = DeparturesQuery] ELSE departures

refreshReservations(o, ok) ==
  IF ok
  THEN \E q \in ReservationsQuery : reservationsList' = [reservationsList EXCEPT ![o] = q]
  ELSE reservationsList' = reservationsList

refreshGuests(o, ok) ==
  guestsList' = IF ok THEN [guestsList EXCEPT ![o] = GuestsQuery] ELSE guestsList

RefreshTag(ok) == IF ok THEN "refresh_ok" ELSE "refresh_err"

\* ------------------------------------------------------------- store writes
\* .from("reservations").update({status}).eq("id", rid)
updateReservationStatus(rid, status) == [reservations EXCEPT ![rid].status = status]

\* .from("rooms").update({status}).eq("id", r)
updateRoomStatus(r, status) == [rooms EXCEPT ![r].status = status]

\* -------------------------------------------------------------------- pages
\* A page is opened (or reloaded): the hooks of the page left are unmounted, the
\* hooks of the page mount with empty lists and their useEffect runs the first refresh.
Open(o, p) ==
  /\ pc[o] = "idle"
  /\ page' = [page EXCEPT ![o] = p]
  /\ \E ok1, ok2 \in BOOLEAN :
       /\ arrivals' = [arrivals EXCEPT ![o] =
            IF p = "hoy" /\ ok1 THEN ArrivalsQuery ELSE EmptyList]
       /\ departures' = [departures EXCEPT ![o] =
            IF p = "hoy" /\ ok2 THEN DeparturesQuery ELSE EmptyList]
       /\ \E q \in ReservationsQuery :
            reservationsList' = [reservationsList EXCEPT ![o] =
              IF p = "reservas" /\ ok1 THEN q ELSE <<>>]
       /\ formRooms' = [formRooms EXCEPT ![o] =
            IF p = "reservas" /\ ok2 THEN RoomsQuery ELSE EmptyList]
       /\ guestsList' = [guestsList EXCEPT ![o] =
            IF p = "guests" /\ ok1 THEN GuestsQuery ELSE {}]
       /\ roomMap' = [roomMap EXCEPT ![o] =
            IF p = "mapa" /\ ok1 THEN RoomMapQuery ELSE EmptyList]
       /\ loading' = [loading EXCEPT ![o] = p # "hoy"]
       /\ error' = [error EXCEPT ![o] =
            IF p = "hoy" /\ ~ok1 THEN "load_error" ELSE "undefined"]
       /\ p \notin {"hoy", "reservas"} => ok2
       /\ p \notin {"hoy", "reservas", "guests", "mapa"} => ok1
  /\ Quiet
  /\ UNCHANGED <<auth, overlapping, store, clock>>

\* Hoy.refresh: Promise.all([refreshArrivals(), refreshDepartures()])
Hoy_refresh(o) ==
  /\ pc[o] = "idle"
  /\ page[o] = "hoy"
  /\ \E okA, okD \in BOOLEAN : refreshArrivals(o, okA) /\ refreshDepartures(o, okD)
  /\ Quiet
  /\ UNCHANGED <<auth, overlapping, store, clock, page, reservationsList, formRooms, guestsList, roomMap>>

\* time passes
Tick ==
  /\ now < MaxNow
  /\ now' = now + 1
  /\ Quiet
  /\ UNCHANGED <<auth, overlapping, store, tz, page, lists>>

\* ------------------------------------------------- useTodayArrivals.checkIn
\* the call and its first request: reservations.update({status: "checked_in"})
checkIn(o, rid) ==
  /\ Starts(o)
  /\ page[o] = "hoy"
  /\ LET a == [NoArgs EXCEPT !.op = "checkIn", !.rid = rid,
                              !.room = reservations[rid].room_id]
     IN \E ok \in BOOLEAN :
          IF ok
          THEN /\ reservations' = updateReservationStatus(rid, "checked_in")
               /\ Goes(o, "checkIn_room", a, <<"res_write_ok">>)
          ELSE /\ reservations' = reservations
               /\ Ends(o, a, <<"res_write_err">>, "store_error")
  /\ UNCHANGED <<auth, overlapping, rooms, guests, clock, page, lists>>

\* checkIn_room with a compensating write: a failed room write puts the reservation back
checkIn_room_rollback(o) ==
  /\ Resumes(o, "checkIn_room")
  /\ \E ok \in BOOLEAN :
       IF ok
       THEN /\ rooms' = updateRoomStatus(args[o].room, "occupied")
            /\ reservations' = reservations
            /\ Goes(o, "checkIn_refresh", args[o], Append(trace[o], "room_write_ok"))
       ELSE /\ rooms' = rooms
            /\ reservations' = updateReservationStatus(args[o].rid, "booked")
            /\ Ends(o, args[o], Append(trace[o], "room_write_err"), "store_error")
  /\ UNCHANGED <<auth, overlapping, guests, clock, page, lists>>

\* the second request: rooms.update({status: "occupied"})
checkIn_room(o) ==
  /\ Resumes(o, "checkIn_room")
  /\ \E ok \in BOOLEAN :
       IF ok
       THEN /\ rooms' = updateRoomStatus(args[o].room, "occupied")
            /\ Goes(o, "checkIn_refresh", args[o], Append(trace[o], "room_write_ok"))
       ELSE /\ rooms' = rooms
            /\ Ends(o, args[o], Append(trace[o], "room_write_err"), "store_error")
  /\ UNCHANGED <<auth, overlapping, guests, reservations, clock, page, lists>>

\* await refresh()
checkIn_refresh(o) ==
  /\ Resumes(o, "checkIn_refresh")
  /\ \E ok \in BOOLEAN :
       /\ refreshArrivals(o, ok)
       /\ Ends(o, args[o], Append(trace[o], RefreshTag(ok)), "ok")
  /\ UNCHANGED <<auth, overlapping, store, clock, page, reservationsList, departures, formRooms, guestsList, roomMap>>

\* --------------------------------------------------- useDepartures.checkOut
\* the guard on the loaded departures, then reservations.update({status: "checked_out"})
checkOut(o, rid) ==
  /\ Starts(o)
  /\ page[o] = "hoy"
  /\ LET a == [NoArgs EXCEPT !.op = "checkOut", !.rid = rid,
                              !.room = reservations[rid].room_id]
     IN IF rid \in DOMAIN departures[o] /\ departures[o][rid].status # "checked_in"
        THEN /\ reservations' = reservations
             /\ Ends(o, a, <<>>, "state_conflict")
        ELSE \E ok \in BOOLEAN :
             IF ok
             THEN /\ reservations' = updateReservationStatus(rid, "checked_out")
                  /\ Goes(o, "checkOut_room", a, <<"res_write_ok">>)
             ELSE /\ reservations' = reservations
                  /\ Ends(o, a, <<"res_write_err">>, "store_error")
  /\ UNCHANGED <<auth, overlapping, rooms, guests, clock, page, lists>>

\* rooms.update({status: "cleaning"})
checkOut_room(o) ==
  /\ Resumes(o, "checkOut_room")
  /\ \E ok \in BOOLEAN :
       IF ok
       THEN /\ rooms' = updateRoomStatus(args[o].room, "cleaning")
            /\ Goes(o, "checkOut_refresh", args[o], Append(trace[o], "room_write_ok"))
       ELSE /\ rooms' = rooms
            /\ Ends(o, args[o], Append(trace[o], "room_write_err"), "store_error")
  /\ UNCHANGED <<auth, overlapping, guests, reservations, clock, page, lists>>

checkOut_refresh(o) ==
  /\ Resumes(o, "checkOut_refresh")
  /\ \E ok \in BOOLEAN :
       /\ refreshDepartures(o, ok)
       /\ Ends(o, args[o], Append(trace[o], RefreshTag(ok)), "ok")
  /\ UNCHANGED <<auth, overlapping, store, clock, page, reservationsList, arrivals, loading, error, formRooms, guestsList, roomMap>>

\* ---------------------------------------------- useTodayArrivals.markNoShow
\* a markNoShow that also frees the room of the reservation
markNoShow_freesRoom(o, rid) ==
  /\ Starts(o)
  /\ page[o] = "hoy"
  /\ LET a == [NoArgs EXCEPT !.op = "markNoShow", !.rid = rid]
     IN \E ok \in BOOLEAN :
          IF ok
          THEN /\ reservations' = updateReservationStatus(rid, "no_show")
               /\ rooms' = updateRoomStatus(reservations[rid].room_id, "available")
               /\ Goes(o, "markNoShow_refresh", a, <<"res_write_ok">>)
          ELSE /\ reservations' = reservations
               /\ rooms' = rooms
               /\ Ends(o, a, <<"res_write_err">>, "store_error")
  /\ UNCHANGED <<auth, overlapping, guests, clock, page, lists>>

markNoShow(o, rid) ==
  /\ Starts(o)
  /\ page[o] = "hoy"
  /\ LET a == [NoArgs EXCEPT !.op = "markNoShow", !.rid = rid]
     IN \E ok \in BOOLEAN :
          IF ok
          THEN /\ reservations' = updateReservationStatus(rid, "no_show")
               /\ Goes(o, "markNoShow_refresh", a, <<"res_write_ok">>)
          ELSE /\ reservations' = reservations
               /\ Ends(o, a, <<"res_write_err">>, "store_error")
  /\ UNCHANGED <<auth, overlapping, rooms, guests, clock, page, lists>>

markNoShow_refresh(o) ==
  /\ Resumes(o, "markNoShow_refresh")
  /\ \E ok \in BOOLEAN :
       /\ refreshArrivals(o, ok)
       /\ Ends(o, args[o], Append(trace[o], RefreshTag(ok)), "ok")
  /\ UNCHANGED <<auth, overlapping, store, clock, page, reservationsList, departures, formRooms, guestsList, roomMap>>

\* ------------------------------------------ useReservations.cancelReservation
\* a cancelReservation that compares the stored status before it writes
cancelReservation_guarded(o, rid) ==
  /\ Starts(o)
  /\ page[o] = "reservas"
  /\ LET a == [NoArgs EXCEPT !.op = "cancelReservation", !.rid = rid]
     IN IF reservations[rid].status # "booked"
        THEN /\ reservations' = reservations
             /\ Ends(o, a, <<>>, "state_conflict")
        ELSE \E ok \in BOOLEAN :
             IF ok
             THEN /\ reservations' = updateReservationStatus(rid, "cancelled")
                  /\ Goes(o, "cancel_refresh", a, <<"res_write_ok">>)
             ELSE /\ reservations' = reservations
                  /\ Ends(o, a, <<"res_write_err">>, "store_error")
  /\ UNCHANGED <<auth, overlapping, rooms, guests, clock, page, lists>>

\* the guard on the loaded reservations, then reservations.update({status: "cancelled"})
cancelReservation(o, rid) ==
  /\ Starts(o)
  /\ page[o] = "reservas"
  /\ LET a == [NoArgs EXCEPT !.op = "cancelReservation", !.rid = rid]
     IN IF \E k \in DOMAIN reservationsList[o] :
             reservationsList[o][k].id = rid /\ reservationsList[o][k].status # "booked"
        THEN /\ reservations' = reservations
             /\ Ends(o, a, <<>>, "state_conflict")
        ELSE \E ok \in BOOLEAN :
             IF ok
             THEN /\ reservations' = updateReservationStatus(rid, "cancelled")
                  /\ Goes(o, "cancel_refresh", a, <<"res_write_ok">>)
             ELSE /\ reservations' = reservations
                  /\ Ends(o, a, <<"res_write_err">>, "store_error")
  /\ UNCHANGED <<auth, overlapping, rooms, guests, clock, page, lists>>

cancel_refresh(o) ==
  /\ Resumes(o, "cancel_refresh")
  /\ \E ok \in BOOLEAN :
       /\ refreshReservations(o, ok)
       /\ Ends(o, args[o], Append(trace[o], RefreshTag(ok)), "ok")
  /\ UNCHANGED <<auth, overlapping, store, clock, page, arrivals, loading, error, departures, formRooms, guestsList, roomMap>>

\* ------------------------------------------------------------ store inserts
\* a reservations table without the constraint
reservations_dates_unchecked(row) == TRUE

\* the reservations table's constraint on the dates of a row
reservations_dates_check(row) == row.check_out_date > row.check_in_date

\* the column default of reservations.status, for an insert that names no status
reservations_status_default(row) ==
  IF row.status = "unset" THEN [row EXCEPT !.status = "booked"] ELSE row

\* two stays of one room that share a night
Overlap(x, y) ==
  /\ x.room_id = y.room_id
  /\ x.check_in_date < y.check_out_date
  /\ y.check_in_date < x.check_out_date

\* a store that refuses a row overlapping a booked or checked-in stay of its room
insertAccepted_exclusive(row) ==
  /\ reservations_dates_check(row)
  /\ Len(reservations) < MaxReservations
  /\ \A i \in DOMAIN reservations :
       reservations[i].status \in {"booked", "checked_in"} => ~Overlap(reservations[i], row)

\* .from("reservations").insert(row) is accepted by the store
insertAccepted(row) == reservations_dates_check(row) /\ Len(reservations) < MaxReservations

\* .from("reservations").insert(row)
insertReservation(row) == Append(reservations, reservations_status_default(row))

\* ------------------------------------- useReservations.createReservation (input)
\* insertData with the status taken from the caller's object when it carries one
insertData_callerStatus(a) ==
  [room_id |-> a.room, guest_id |-> a.guest,
   check_in_date |-> a.ci, check_out_date |-> a.co,
   status |-> IF a.status = "none" THEN "booked" ELSE a.status,
   base_price |-> a.price, discount |-> 0, final_price |-> a.price]

\* the row createReservation and handleCreate build: status is the literal "booked"
insertData(a) ==
  [room_id |-> a.room, guest_id |-> a.guest,
   check_in_date |-> a.ci, check_out_date |-> a.co,
   status |-> "booked",
   base_price |-> a.price, discount |-> 0, final_price |-> a.price]

\* a date check that lets equal dates through
datesInvalid_strict(ci, co) == co < ci

\* the front-end validation of the dates: checkOutDate <= checkInDate is refused
datesInvalid(ci, co) == co <= ci

\* an id no room row has
UnknownRoom == "r0"

\* the call: the validation of the dates, then rooms.select("base_price").eq("id", roomId).single()
createReservation(o, room, guest, ci, co, st) ==
  /\ Starts(o)
  /\ page[o] = "reservas"
  /\ LET a == [NoArgs EXCEPT !.op = "createReservation", !.room = room, !.guest = guest,
                              !.ci = ci, !.co = co, !.status = st]
     IN IF datesInvalid(ci, co)
        THEN Ends(o, a, <<>>, "validation")
        ELSE \E ok \in BOOLEAN :
               IF ok /\ room \in DOMAIN rooms
               THEN Goes(o, "create_insert", [a EXCEPT !.price = rooms[room].base_price],
                         <<"room_lookup_ok">>)
               ELSE Ends(o, a, <<"room_lookup_err">>, "store_error")
  /\ UNCHANGED <<auth, overlapping, store, clock, page, lists>>

\* reservations.insert(insertData)
createReservation_insert(o) ==
  /\ Resumes(o, "create_insert")
  /\ \E ok \in BOOLEAN :
       IF ok /\ insertAccepted(insertData(args[o]))
       THEN /\ reservations' = insertReservation(insertData(args[o]))
            /\ Goes(o, "create_refresh", args[o], Append(trace[o], "insert_ok"))
       ELSE /\ reservations' = reservations
            /\ Ends(o, args[o], Append(trace[o], "insert_err"), "store_error")
  /\ UNCHANGED <<auth, overlapping, rooms, guests, clock, page, lists>>

createReservation_refresh(o) ==
  /\ Resumes(o, "create_refresh")
  /\ \E ok \in BOOLEAN :
       /\ refreshReservations(o, ok)
       /\ Ends(o, args[o], Append(trace[o], RefreshTag(ok)), "ok")
  /\ UNCHANGED <<auth, overlapping, store, clock, page, arrivals, loading, error, departures, formRooms, guestsList, roomMap>>

\* ----------------------------------- useReservations.createReservation (payload)
\* the earlier hook: the row is the caller's payload, prices included, with the
\* literal status "booked" and discount ?? 0
insertData_payload(a) ==
  [room_id |-> a.room, guest_id |-> a.guest,
   check_in_date |-> a.ci, check_out_date |-> a.co,
   status |-> "booked",
   base_price |-> a.price, discount |-> a.discount, final_price |-> a.final]

createReservation_payload(o, room, guest, ci, co, price, discount, final, st) ==
  /\ Starts(o)
  /\ page[o] = "reservas"
  /\ LET a == [NoArgs EXCEPT !.op = "createReservation_payload", !.room = room,
                              !.guest = guest, !.ci = ci, !.co = co, !.price = price,
                              !.discount = discount, !.final = final, !.status = st]
     IN \E ok \in BOOLEAN :
          IF ok /\ insertAccepted(insertData_payload(a))
          THEN /\ reservations' = insertReservation(insertData_payload(a))
               /\ Goes(o, "create_refresh", a, <<"insert_ok">>)
          ELSE /\ reservations' = reservations
               /\ Ends(o, a, <<"insert_err">>, "store_error")
  /\ UNCHANGED <<auth, overlapping, rooms, guests, clock, page, lists>>

\* ------------------------------------------------- Reservas page, first version
\* ReservationForm.validate: every field is required and the dates are chronological
\* (an empty field is "" for an id and 0 for a date)
validate(guest, room, ci, co) ==
  /\ guest # ""
  /\ room # ""
  /\ ci # 0
  /\ co # 0
  /\ ~(ci # 0 /\ co # 0 /\ co <= ci)

\* ReservationForm.handleSubmit, then Reservas.handleCreate: the prices are those of
\* the room selected among the rows loaded by loadDependencies
Reservas_handleCreate(o, room, guest, ci, co) ==
  /\ Starts(o)
  /\ page[o] = "reservas"
  /\ room \in DOMAIN formRooms[o] \cup {""}
  /\ LET price == IF room = "" THEN 0 ELSE formRooms[o][room].base_price
         a == [NoArgs EXCEPT !.op = "handleCreate", !.room = room, !.guest = guest,
                              !.ci = ci, !.co = co, !.price = price]
     IN IF ~validate(guest, room, ci, co)
        THEN /\ reservations' = reservations
             /\ Ends(o, a, <<>>, "validation")
        ELSE \E ok \in BOOLEAN :
             IF ok /\ insertAccepted(insertData(a))
             THEN /\ reservations' = insertReservation(insertData(a))
                  /\ Goes(o, "create_refresh", a, <<"insert_ok">>)
             ELSE /\ reservations' = reservations
                  /\ Ends(o, a, <<"insert_err">>, "store_error")
  /\ UNCHANGED <<auth, overlapping, rooms, guests, clock, page, lists>>

\* ------------------------------------------------------------- DebugDbTest
\* the room and the guest tests 1 and 2 created
TestRoom == "r1"
TestGuest == "g1"
TestPrice == 1000
TestFrom == 1
TestTo == 3

\* runTestReservationValid / runTestReservationInvalid: a direct insert that names
\* no status; test 4 inserts the dates reversed and passes when the store refuses
runTestReservation(o, reversed) ==
  /\ Starts(o)
  /\ page[o] = "debug"
  /\ LET a == [NoArgs EXCEPT !.op = "runTestReservation", !.room = TestRoom,
                              !.guest = TestGuest, !.price = TestPrice,
                              !.ci = IF reversed THEN TestTo ELSE TestFrom,
                              !.co = IF reversed THEN TestFrom ELSE TestTo]
         row == [insertData(a) EXCEPT !.status = "unset"]
     IN \E ok \in BOOLEAN :
          IF ok /\ insertAccepted(row)
          THEN /\ reservations' = insertReservation(row)
               /\ Ends(o, a, <<"insert_ok">>, IF reversed THEN "test_failed" ELSE "test_passed")
          ELSE /\ reservations' = reservations
               /\ Ends(o, a, <<"insert_err">>, IF reversed THEN "test_passed" ELSE "test_failed")
  /\ UNCHANGED <<auth, overlapping, rooms, guests, clock, page, lists>>

\* ---------------------------------------------------------- useRooms.updateRoom
\* the payloads that supply some of the given fields
Payloads(fields, values) ==
  UNION {[S -> values] : S \in SUBSET fields}

\* an updateData that forgets the status field
updateData_withoutStatus(payload) ==
  [f \in DOMAIN payload \ {"status"} |-> payload[f]]

\* updateData: the fields of the payload that are not undefined
updateData(payload) == payload

\* a row with the supplied fields written
written(row, data) ==
  [f \in DOMAIN row |-> IF f \in DOMAIN data THEN data[f] ELSE row[f]]

updateRoom(o, id, payload) ==
  /\ Starts(o)
  /\ page[o] = "rooms"
  /\ LET a == [NoArgs EXCEPT !.op = "updateRoom", !.room = id]
     IN IF id = ""
        THEN /\ rooms' = rooms
             /\ Ends(o, a, <<>>, "id_required")
        ELSE IF DOMAIN updateData(payload) = {}
        THEN /\ rooms' = rooms
             /\ Ends(o, a, <<>>, "ok")
        ELSE \E ok \in BOOLEAN :
             IF ok
             THEN /\ rooms' = [rooms EXCEPT ![id] = written(@, updateData(payload))]
                  /\ Goes(o, "updateRoom_refresh", a, <<"room_write_ok">>)
             ELSE /\ rooms' = rooms
                  /\ Ends(o, a, <<"room_write_err">>, "store_error")
  /\ UNCHANGED <<auth, overlapping, guests, reservations, clock, page, lists>>

updateRoom_refresh(o) ==
  /\ Resumes(o, "updateRoom_refresh")
  /\ \E ok \in BOOLEAN : Ends(o, args[o], Append(trace[o], RefreshTag(ok)), "ok")
  /\ UNCHANGED <<auth, overlapping, store, clock, page, lists>>

\* -------------------------------------------------------- useGuests.updateGuest
updateGuest(o, id, payload) ==
  /\ Starts(o)
  /\ page[o] = "guests"
  /\ LET a == [NoArgs EXCEPT !.op = "updateGuest", !.guest = id]
     IN IF id = ""
        THEN /\ guests' = guests
             /\ Ends(o, a, <<>>, "id_required")
        ELSE IF DOMAIN updateData(payload) = {}
        THEN /\ guests' = guests
             /\ Ends(o, a, <<>>, "ok")
        ELSE \E ok \in BOOLEAN :
             IF ok
             THEN /\ guests' = [guests EXCEPT ![id] = written(@, updateData(payload))]
                  /\ Goes(o, "updateGuest_refresh", a, <<"guest_write_ok">>)
             ELSE /\ guests' = guests
                  /\ Ends(o, a, <<"guest_write_err">>, "store_error")
  /\ UNCHANGED <<auth, overlapping, rooms, reservations, clock, page, lists>>

updateGuest_refresh(o) ==
  /\ Resumes(o, "updateGuest_refresh")
  /\ \E ok \in BOOLEAN :
       /\ refreshGuests(o, ok)
       /\ Ends(o, args[o], Append(trace[o], RefreshTag(ok)), "ok")
  /\ UNCHANGED <<auth, overlapping, store, clock, page, reservationsList, arrivals, loading, error,
                 departures, formRooms, roomMap>>

\* -------------------------------------------------------- useRoomMap.markAsClean
\* RoomCard shows the button on a room its list holds as cleaning; the click
\* calls markAsClean: rooms.update({status: "available"}).eq("id", roomId)
markAsClean(o, roomId) ==
  /\ Starts(o)
  /\ page[o] = "mapa"
  /\ roomId \in DOMAIN roomMap[o]
  /\ roomMap[o][roomId].status = "cleaning"
  /\ LET a == [NoArgs EXCEPT !.op = "markAsClean", !.room = roomId]
     IN \E ok \in BOOLEAN :
          IF ok
          THEN /\ rooms' = updateRoomStatus(roomId, "available")
               /\ Goes(o, "markAsClean_refresh", a, <<"room_write_ok">>)
          ELSE /\ rooms' = rooms
               /\ Ends(o, a, <<"room_write_err">>, "store_error")
  /\ UNCHANGED <<auth, overlapping, guests, reservations, clock, page, lists>>

refreshRoomMap(o, ok) ==
  roomMap' = IF ok THEN [roomMap EXCEPT ![o] = RoomMapQuery] ELSE roomMap

markAsClean_refresh(o) ==
  /\ Resumes(o, "markAsClean_refresh")
  /\ \E ok \in BOOLEAN :
       /\ refreshRoomMap(o, ok)
       /\ Ends(o, args[o], Append(trace[o], RefreshTag(ok)), "ok")
  /\ UNCHANGED <<auth, overlapping, store, clock, page, reservationsList, arrivals, loading, error,
                 departures, formRooms, guestsList>>

\* ------------------------------------------------------- RoomForm, GuestForm
RECURSIVE trimStart(_), trimEnd(_)
trimStart(s) ==
  IF s = <<>> THEN s ELSE IF Head(s) = " " THEN trimStart(Tail(s)) ELSE s

trimEnd(s) ==
  IF s = <<>> THEN s
  ELSE IF s[Len(s)] = " " THEN trimEnd(SubSeq(s, 1, Len(s) - 1)) ELSE s

\* a trim that leaves the text as typed
trim_none(s) == s

\* String.prototype.trim
trim(s) == trimEnd(trimStart(s))

\* emailRegex.test(s), /^[^\s@]+@[^\s@]+\.[^\s@]+$/: an "@" at i and a "." at j
\* with one character or more before i, between i and j, and after j, none of
\* the characters around the "@" being white space or "@"
emailRegex_test(s) ==
  \E i, j \in DOMAIN s :
    /\ s[i] = "@"
    /\ s[j] = "."
    /\ 1 < i /\ i + 1 < j /\ j < Len(s)
    /\ \A k \in DOMAIN s \ {i} : s[k] \notin {" ", "@"}

\* RoomForm.handleSubmit on the form of an existing room, then Rooms.handleSubmit:
\* updateRoom(editingRoom.id, data)
RoomForm_handleSubmit(o, id, number, type, base_price, status) ==
  /\ Starts(o)
  /\ page[o] = "rooms"
  /\ LET a == [NoArgs EXCEPT !.op = "RoomForm_handleSubmit", !.room = id,
                              !.number = number, !.type = type, !.price = base_price,
                              !.status = status]
         data == [number |-> number, type |-> type, base_price |-> base_price,
                  status |-> status]
     IN IF trim(number) = <<>>
        THEN rooms' = rooms /\ Ends(o, a, <<"numberRequired">>, "validation")
        ELSE IF trim(type) = <<>>
        THEN rooms' = rooms /\ Ends(o, a, <<"typeRequired">>, "validation")
        ELSE IF base_price < 0
        THEN rooms' = rooms /\ Ends(o, a, <<"pricePositive">>, "validation")
        ELSE \E ok \in BOOLEAN :
             IF ok
             THEN /\ rooms' = [rooms EXCEPT ![id] = written(@, updateData(data))]
                  /\ Goes(o, "updateRoom_refresh", a, <<"onSubmit", "room_write_ok">>)
             ELSE /\ rooms' = rooms
                  /\ Ends(o, a, <<"onSubmit", "room_write_err">>, "store_error")
  /\ UNCHANGED <<auth, overlapping, guests, reservations, clock, page, lists>>

\* GuestForm.handleSubmit on the form of an existing guest, then Guests.handleSubmit:
\* updateGuest(editingGuest.id, data)
GuestForm_handleSubmit(o, id, name, email) ==
  /\ Starts(o)
  /\ page[o] = "guests"
  /\ LET a == [NoArgs EXCEPT !.op = "GuestForm_handleSubmit", !.guest = id,
                              !.name = name, !.email = email]
         emailValue == trim(email)
         data == [name |-> trim(name),
                  email |-> IF emailValue = <<>> THEN Null ELSE emailValue]
     IN IF trim(name) = <<>>
        THEN guests' = guests /\ Ends(o, a, <<"nameRequired">>, "validation")
        ELSE IF emailValue # <<>> /\ ~emailRegex_test(emailValue)
        THEN guests' = guests /\ Ends(o, a, <<"emailInvalid">>, "validation")
        ELSE \E ok \in BOOLEAN :
             IF ok
             THEN /\ guests' = [guests EXCEPT ![id] = written(@, updateData(data))]
                  /\ Goes(o, "updateGuest_refresh", a, <<"onSubmit", "guest_write_ok">>)
             ELSE /\ guests' = guests
                  /\ Ends(o, a, <<"onSubmit", "guest_write_err">>, "store_error")
  /\ UNCHANGED <<auth, overlapping, rooms, reservations, clock, page, lists>>

\* ------------------------------------------------------ useGuests.archiveGuest
\* .from("reservations").select("id").eq("guest_id", id)
\*   .gte("check_out_date", today).in("status", ["booked", "checked_in"])
activeReservations(id, today) ==
  {i \in ReservationIds : /\ reservations[i].guest_id = id
                          /\ reservations[i].check_out_date >= today
                          /\ reservations[i].status \in {"booked", "checked_in"}}

\* archiveGuest that archives without looking at the result of the check
archiveGuest_unchecked(o, id) ==
  /\ Starts(o)
  /\ page[o] = "guests"
  /\ LET a == [NoArgs EXCEPT !.op = "archiveGuest", !.guest = id, !.today = utcDate]
     IN IF id = ""
        THEN Ends(o, a, <<>>, "id_required")
        ELSE \E ok \in BOOLEAN :
               IF ~ok
               THEN Ends(o, a, <<"check_err">>, "store_error")
               ELSE Goes(o, "archive_update", a, <<"check_ok">>)
  /\ UNCHANGED <<auth, overlapping, store, clock, page, lists>>

\* the call: today is the UTC date; then the check query
archiveGuest(o, id) ==
  /\ Starts(o)
  /\ page[o] = "guests"
  /\ LET a == [NoArgs EXCEPT !.op = "archiveGuest", !.guest = id, !.today = utcDate]
     IN IF id = ""
        THEN Ends(o, a, <<>>, "id_required")
        ELSE \E ok \in BOOLEAN :
               IF ~ok
               THEN Ends(o, a, <<"check_err">>, "store_error")
               ELSE IF activeReservations(id, utcDate) # {}
                    THEN Ends(o, a, <<"check_ok">>, "HAS_ACTIVE_RESERVATIONS")
                    ELSE Goes(o, "archive_update", a, <<"check_ok">>)
  /\ UNCHANGED <<auth, overlapping, store, clock, page, lists>>

\* .from("guests").update({is_active: false, archived_at: new Date().toISOString()})
archiveGuest_update(o) ==
  /\ Resumes(o, "archive_update")
  /\ \E ok \in BOOLEAN :
       IF ok
       THEN /\ guests' = [guests EXCEPT ![args[o].guest] =
                            written(@, [is_active |-> FALSE, archived_at |-> now])]
            /\ Goes(o, "archive_refresh", args[o], Append(trace[o], "guest_write_ok"))
       ELSE /\ guests' = guests
            /\ Ends(o, args[o], Append(trace[o], "guest_write_err"), "store_error")
  /\ UNCHANGED <<auth, overlapping, rooms, reservations, clock, page, lists>>

archiveGuest_refresh(o) ==
  /\ Resumes(o, "archive_refresh")
  /\ \E ok \in BOOLEAN :
       /\ refreshGuests(o, ok)
       /\ Ends(o, args[o], Append(trace[o], RefreshTag(ok)), "ok")
  /\ UNCHANGED <<auth, overlapping, store, clock, page, reservationsList, arrivals, loading, error, departures, formRooms, roomMap>>

\* ------------------------------------------------------------ front desk
\* a reservation row as createReservation inserts it
BookedRow(r, g, ci, co, price) ==
  [room_id |-> r, guest_id |-> g, check_in_date |-> ci, check_out_date |-> co,
   status |-> "booked", base_price |-> price, discount |-> 0, final_price |-> price]


\* a room row and a guest row as createRoom and createGuest insert them
RoomRow(r, status) ==
  [number |-> IF r = "r1" THEN <<"a">> ELSE <<"a", "a">>,
   type |-> <<"a">>, status |-> status, base_price |-> 100, is_active |-> TRUE]

GuestRow(g) ==
  [name |-> IF g = "g1" THEN <<"a">> ELSE <<"a", "a">>,
   email |-> Null, is_active |-> TRUE, archived_at |-> 0]

InitClients ==
  /\ page = [o \in Operators |-> "none"]
  /\ pc = [o \in Operators |-> "idle"]
  /\ args = [o \in Operators |-> NoArgs]
  /\ trace = [o \in Operators |-> <<>>]
  /\ ended = NoCall
  /\ calls = 0
  /\ reservationsList = [o \in Operators |-> <<>>]
  /\ arrivals = [o \in Operators |-> EmptyList]
  /\ departures = [o \in Operators |-> EmptyList]
  /\ formRooms = [o \in Operators |-> EmptyList]
  /\ guestsList = [o \in Operators |-> {}]
  /\ roomMap = [o \in Operators |-> EmptyList]
  /\ loading = [o \in Operators |-> TRUE]
  /\ error = [o \in Operators |-> "undefined"]
  /\ processingId = [o \in Operators |-> 0]
  /\ inFlight = [o \in Operators |-> <<>>]
  /\ search = [o \in Operators |-> <<>>]
  /\ refreshes = [o \in Operators |-> <<>>]
  /\ users = <<>>
  /\ session = 0
  /\ currentUser = 0
  /\ pending = <<>>

InitRooms ==
  /\ rooms = [r \in RoomIds |-> RoomRow(r, "available")]
  /\ guests = [g \in GuestIds |-> GuestRow(g)]

\* The front desk on day 2: every reservation either arrives today and is booked,
\* or was checked in yesterday (its room occupied) and departs today.  One
\* operator keeps the reservations page open, the other the Today page.
DeskRows ==
  {BookedRow(r, "g1", 2, 3, 100) : r \in RoomIds}
    \cup {[BookedRow(r, "g1", 1, 2, 100) EXCEPT !.status = "checked_in"] : r \in RoomIds}

DeskPage(o) == IF o = "op1" THEN "reservas" ELSE "hoy"

InitDesk ==
  /\ \E n \in 1..MaxReservations :
       reservations \in
         {q \in [1..n -> DeskRows] :
            \A i, j \in 1..n :
              (i # j /\ q[i].room_id = q[j].room_id) => q[i].status # q[j].status}
  /\ rooms = [r \in RoomIds |->
       RoomRow(r, IF \E i \in ReservationIds :
                       reservations[i].room_id = r /\ reservations[i].status = "checked_in"
                  THEN "occupied" ELSE "available")]
  /\ guests = [g \in GuestIds |-> GuestRow(g)]
  /\ now = 4
  /\ tz = 0
  /\ InitClients

NextDesk ==
  \/ \E o \in Operators : Open(o, DeskPage(o))
  \/ \E o \in Operators : Hoy_refresh(o)
  \/ \E o \in Operators : \E rid \in ReservationIds : checkIn(o, rid)
  \/ \E o \in Operators : checkIn_room(o)
  \/ \E o \in Operators : checkIn_refresh(o)
  \/ \E o \in Operators : \E rid \in ReservationIds : checkOut(o, rid)
  \/ \E o \in Operators : checkOut_room(o)
  \/ \E o \in Operators : checkOut_refresh(o)
  \/ \E o \in Operators : \E rid \in ReservationIds : markNoShow(o, rid)
  \/ \E o \in Operators : markNoShow_refresh(o)
  \/ \E o \in Operators : \E rid \in ReservationIds : cancelReservation(o, rid)
  \/ \E o \in Operators : cancel_refresh(o)

SpecDesk == InitDesk /\ [][NextDesk]_vars

\* ------------------------------------------------------- taking reservations
\* One operator keeps the reservations page open and takes bookings, the other
\* edits room prices on the rooms page or runs the smoke tests of the debug page.
CreatePages(o) == IF o = "op1" THEN {"reservas"} ELSE {"rooms", "debug"}

CallerStatuses == {"none", "checked_in"}
Discounts == {0, 10}

InitCreate ==
  /\ InitRooms
  /\ reservations = <<>>
  /\ now = 2
  /\ tz = 0
  /\ InitClients

NextCreate ==
  \/ \E o \in Operators : \E p \in CreatePages(o) : Open(o, p)
  \/ \E o \in Operators : \E room \in RoomIds \cup {UnknownRoom} : \E ci, co \in Dates :
       \E st \in CallerStatuses : createReservation(o, room, "g1", ci, co, st)
  \/ \E o \in Operators : createReservation_insert(o)
  \/ \E o \in Operators : createReservation_refresh(o)
  \/ \E o \in Operators : \E room \in RoomIds : \E ci, co \in Dates : \E price \in Prices :
       \E discount \in Discounts : \E st \in CallerStatuses :
         createReservation_payload(o, room, "g1", ci, co, price, discount, price - discount, st)
  \/ \E o \in Operators : \E room \in RoomIds \cup {""} : \E guest \in {"g1", ""} :
       \E ci, co \in 0..MaxDate : Reservas_handleCreate(o, room, guest, ci, co)
  \/ \E o \in Operators : \E reversed \in BOOLEAN : runTestReservation(o, reversed)
  \/ \E o \in Operators : \E id \in RoomIds :
       \E payload \in Payloads({"base_price"}, Prices) : updateRoom(o, id, payload)
  \/ \E o \in Operators : updateRoom_refresh(o)

SpecCreate == InitCreate /\ [][NextCreate]_vars

\* --------------------------------------------------------------- the guests
\* Both operators keep the guests page open; the guests' reservations are
\* booked, checked in or checked out and end on day 2 or later; it is the
\* morning of the last day and the clock runs into its afternoon.
GuestRows ==
  {[BookedRow("r1", g, 1, co, 100) EXCEPT !.status = st] :
     g \in GuestIds, co \in 2..MaxDate, st \in {"booked", "checked_in", "checked_out"}}

InitGuests ==
  /\ InitRooms
  /\ \E n \in 1..MaxReservations : reservations \in [1..n -> GuestRows]
  /\ now = MaxNow - 1
  /\ tz = 0
  /\ InitClients

NextGuests ==
  \/ \E o \in Operators : Open(o, "guests")
  \/ \E o \in Operators : \E id \in GuestIds \cup {""} : archiveGuest(o, id)
  \/ \E o \in Operators : archiveGuest_update(o)
  \/ \E o \in Operators : archiveGuest_refresh(o)
  \/ Tick

SpecGuests == InitGuests /\ [][NextGuests]_vars

\* ------------------------------------------------------- editing the records
\* One operator edits rooms on the rooms page, the other edits guests on the
\* guests page; each edit supplies any subset of the record's fields.
EditPage(o) == IF o = "op1" THEN "rooms" ELSE "guests"

Numbers == {<<"a">>, <<"a", "a">>}
Emails == {Null, <<"a", "@", "a", ".", "a">>}

RoomPayloads ==
  {n @@ p @@ s : n \in Payloads({"number"}, Numbers),
                 p \in Payloads({"base_price"}, Prices),
                 s \in Payloads({"status"}, ROOM_STATUSES)}

GuestPayloads ==
  {n @@ e : n \in Payloads({"name"}, Numbers), e \in Payloads({"email"}, Emails)}

InitEdit ==
  /\ InitRooms
  /\ reservations = <<>>
  /\ now = 2
  /\ tz = 0
  /\ InitClients

NextEdit ==
  \/ \E o \in Operators : Open(o, EditPage(o))
  \/ \E o \in Operators : \E id \in RoomIds \cup {""} : \E payload \in RoomPayloads :
       updateRoom(o, id, payload)
  \/ \E o \in Operators : updateRoom_refresh(o)
  \/ \E o \in Operators : \E id \in GuestIds \cup {""} : \E payload \in GuestPayloads :
       updateGuest(o, id, payload)
  \/ \E o \in Operators : updateGuest_refresh(o)

SpecEdit == InitEdit /\ [][NextEdit]_vars

\* ------------------------------------------------------------ the whole hotel
\* Day 2.  Reservation 1 is booked and arrives today in room r1, which is
\* available or under maintenance; a second reservation, when
\* there is one, left room r2 yesterday or leaves it today.  One operator works
\* on the reservations, guests and rooms pages, the other on the Today page and
\* the room map.
HotelPages(o) == IF o = "op1" THEN {"reservas", "guests", "rooms"} ELSE {"hoy", "mapa"}

StayRow(st) == [BookedRow("r2", "g2", 1, 2, 100) EXCEPT !.status = st]

InitHotel ==
  /\ \/ reservations = <<BookedRow("r1", "g1", 2, 3, 100)>>
     \/ \E st \in {"checked_in", "checked_out"} :
          reservations = <<BookedRow("r1", "g1", 2, 3, 100), StayRow(st)>>
  /\ \E s1 \in {"available", "maintenance"} :
       rooms = [r \in RoomIds |->
         RoomRow(r, IF r = "r1" THEN s1
                    ELSE IF Len(reservations) = 1 THEN "available"
                    ELSE IF reservations[2].status = "checked_in" THEN "occupied"
                    ELSE "cleaning")]
  /\ guests = [g \in GuestIds |-> GuestRow(g)]
  /\ now = 4
  /\ tz = 0
  /\ InitClients

NextHotel ==
  \/ \E o \in Operators : \E p \in HotelPages(o) : Open(o, p)
  \/ \E o \in Operators : Hoy_refresh(o)
  \/ \E o \in Operators : \E rid \in ReservationIds : checkIn(o, rid)
  \/ \E o \in Operators : checkIn_room(o)
  \/ \E o \in Operators : checkIn_refresh(o)
  \/ \E o \in Operators : \E rid \in ReservationIds : checkOut(o, rid)
  \/ \E o \in Operators : checkOut_room(o)
  \/ \E o \in Operators : checkOut_refresh(o)
  \/ \E o \in Operators : \E rid \in ReservationIds : markNoShow(o, rid)
  \/ \E o \in Operators : markNoShow_refresh(o)
  \/ \E o \in Operators : \E rid \in ReservationIds : cancelReservation(o, rid)
  \/ \E o \in Operators : cancel_refresh(o)
  \/ \E o \in Operators : \E room \in RoomIds :
       createReservation(o, room, "g2", 2, 3, "none")
  \/ \E o \in Operators : createReservation_insert(o)
  \/ \E o \in Operators : createReservation_refresh(o)
  \/ \E o \in Operators : \E id \in RoomIds :
       \E payload \in Payloads({"status"}, {"available", "maintenance"}) :
         updateRoom(o, id, payload)
  \/ \E o \in Operators : updateRoom_refresh(o)
  \/ \E o \in Operators : \E id \in GuestIds : archiveGuest(o, id)
  \/ \E o \in Operators : archiveGuest_update(o)
  \/ \E o \in Operators : archiveGuest_refresh(o)
  \/ \E o \in Operators : \E roomId \in RoomIds : markAsClean(o, roomId)
  \/ \E o \in Operators : markAsClean_refresh(o)

SpecHotel == InitHotel /\ [][NextHotel]_vars

\* ---------------------------------------------------------------- the forms
\* The operators fill in the edit forms of the rooms and guests pages with
\* short texts, blank and padded ones included.
MaxText == 2
MaxEmail == 5

Texts(n) == UNION {[1..k -> Chars] : k \in 0..n}

FormNumbers == {t \in Texts(MaxText) : \A k \in DOMAIN t : t[k] \in {"a", " "}}
FormTypes == {<<>>, <<" ">>, <<"a">>}
FormPrices == {-1, 0, 100}
FormNames == {<<>>, <<" ">>, <<"a">>, <<"a", " ">>}

\* the addresses typed: nothing, one character, or letters and blanks
\* alternating with "@" and "."
FormEmails ==
  {t \in Texts(MaxEmail) :
     \/ Len(t) <= 1
     \/ /\ Len(t) \in {3, 5}
        /\ \A k \in DOMAIN t :
             t[k] \in (IF k % 2 = 1 THEN {"a", " "} ELSE {"@", "."})}

NextForms ==
  \/ \E o \in Operators : Open(o, EditPage(o))
  \/ \E o \in Operators : \E id \in RoomIds : \E number \in FormNumbers :
       \E type \in FormTypes : \E base_price \in FormPrices :
         RoomForm_handleSubmit(o, id, number, type, base_price, "available")
  \/ \E o \in Operators : updateRoom_refresh(o)
  \/ \E o \in Operators : \E id \in GuestIds : \E name \in FormNames :
       \E email \in FormEmails : GuestForm_handleSubmit(o, id, name, email)
  \/ \E o \in Operators : updateGuest_refresh(o)

SpecForms == InitEdit /\ [][NextForms]_vars

\* ------------------------------------------------ archiving while booking
\* One operator archives guests on the guests page while the other takes
\* bookings on the reservations page.  Guest g1 holds one stay, booked or
\* checked in; the callers are west of, at, or east of UTC.
ArchivePage(o) == IF o = "op1" THEN "guests" ELSE "reservas"

TzOffsets == {-1, 0, 1}

InitArchive ==
  /\ InitRooms
  /\ \E st \in {"booked", "checked_in"} : \E co \in 1..MaxDate :
       reservations = <<[BookedRow("r1", "g1", 0, co, 100) EXCEPT !.status = st]>>
  /\ now = 4
  /\ tz \in TzOffsets
  /\ InitClients

NextArchive ==
  \/ \E o \in Operators : Open(o, ArchivePage(o))
  \/ \E o \in Operators : \E id \in GuestIds : archiveGuest(o, id)
  \/ \E o \in Operators : archiveGuest_update(o)
  \/ \E o \in Operators : archiveGuest_refresh(o)
  \/ \E o \in Operators : \E guest \in GuestIds :
       createReservation(o, "r1", guest, 2, 3, "none")
  \/ \E o \in Operators : createReservation_insert(o)
  \/ \E o \in Operators : createReservation_refresh(o)

SpecArchive == InitArchive /\ [][NextArchive]_vars

\* ------------------------------------------------------------ AuthProvider
\* Everything outside AuthProvider and the users table.
desk == <<store, clock, page, pc, args, trace, ended, calls, lists, processingId,
          overlapping>>

AuthUsers == {1}

MaxCallbacks == 4

\* A callback AuthProvider has scheduled: who scheduled it, the auth user it
\* was given (0 is a null session), the request it waits for, and the number
\* of inserts into users it has issued.
Callback(from, user, step) ==
  [from |-> from, user |-> user, step |-> step, issued |-> 0]

\* The row fetchOrCreateUser inserts.
UserRow(authUser) == [auth_user_id |-> authUser, email |-> <<"a", "@", "a">>]

\* from("users").select("*").eq("auth_user_id", authUser.id)
existingUser(authUser) == {r \in DOMAIN users : users[r].auth_user_id = authUser}

\* The session the auth client holds: the one of its last notification or
\* sign-out, when there was one.
Notified == {i \in DOMAIN pending : pending[i].from # "getSession"}

LastNotified == CHOOSE i \in Notified : \A j \in Notified : j <= i

\* useEffect subscribes the listener and asks for the stored session.
AuthProvider_useEffect ==
  /\ pending = <<>>
  /\ pending' = <<Callback("getSession", 0, "getSession")>>
  /\ UNCHANGED <<users, session, currentUser, desk>>

\* getSession().then: set the session and, for a signed-in user, start
\* fetchOrCreateUser, which sends its select.
getSession_then(i) ==
  /\ pending[i].step = "getSession"
  /\ \E s \in {0} \cup AuthUsers :
       /\ (Notified # {}) => (s = pending[LastNotified].user)
       /\ session' = s
       /\ pending' = [pending EXCEPT ![i] =
                        Callback("getSession", s, IF s # 0 THEN "select" ELSE "done")]
  /\ UNCHANGED <<users, currentUser, desk>>

\* The listener of onAuthStateChange is told of a session: it sets it and
\* either defers fetchOrCreateUser with setTimeout or clears currentUser.
onAuthStateChange(s) ==
  /\ pending # <<>>
  /\ Len(pending) < MaxCallbacks
  /\ session' = s
  /\ IF s # 0
       THEN /\ pending' = Append(pending, Callback("listener", s, "timer"))
            /\ UNCHANGED currentUser
       ELSE /\ pending' = Append(pending, Callback("listener", 0, "done"))
            /\ currentUser' = 0
  /\ UNCHANGED <<users, desk>>

\* The deferred callback runs: fetchOrCreateUser sends its select.
onAuthStateChange_timeout(i) ==
  /\ pending[i].step = "timer"
  /\ pending' = [pending EXCEPT ![i].step = "select"]
  /\ UNCHANGED <<users, session, currentUser, desk>>

\* fetchOrCreateUser after its select: an error (maybeSingle fails on two
\* rows too) returns null, a row is returned, no row sends the insert.  A
\* returned value goes to setCurrentUser.
fetchOrCreateUser_select(i) ==
  /\ pending[i].step = "select"
  /\ \E ok \in BOOLEAN :
       LET found == existingUser(pending[i].user)
           fetchError == ~ok \/ Cardinality(found) > 1
       IN  IF fetchError
             THEN /\ currentUser' = 0
                  /\ pending' = [pending EXCEPT ![i].step = "done"]
             ELSE IF found # {}
               THEN /\ currentUser' = CHOOSE r \in found : TRUE
                    /\ pending' = [pending EXCEPT ![i].step = "done"]
               ELSE /\ pending' = [pending EXCEPT ![i].step = "insert",
                                                  ![i].issued = 1]
                    /\ UNCHANGED currentUser
  /\ UNCHANGED <<users, session, desk>>

\* fetchOrCreateUser after its insert: the new row or null goes to
\* setCurrentUser.
fetchOrCreateUser_insert(i) ==
  /\ pending[i].step = "insert"
  /\ \E ok \in BOOLEAN :
       IF ok
         THEN /\ users' = Append(users, UserRow(pending[i].user))
              /\ currentUser' = Len(users) + 1
         ELSE /\ currentUser' = 0
              /\ UNCHANGED users
  /\ pending' = [pending EXCEPT ![i].step = "done"]
  /\ UNCHANGED <<session, desk>>

\* signOut sends the sign-out to the auth client.
signOut ==
  /\ pending # <<>>
  /\ Len(pending) < MaxCallbacks
  /\ pending' = Append(pending, Callback("signOut", 0, "signOut"))
  /\ UNCHANGED <<users, session, currentUser, desk>>

\* signOut after its await: it clears the session and currentUser.
signOut_resume(i) ==
  /\ pending[i].step = "signOut"
  /\ session' = 0
  /\ currentUser' = 0
  /\ pending' = [pending EXCEPT ![i].step = "done"]
  /\ UNCHANGED <<users, desk>>

InitAuth ==
  /\ InitRooms
  /\ reservations = <<>>
  /\ now = 4
  /\ tz = 0
  /\ InitClients

NextAuth ==
  \/ AuthProvider_useEffect
  \/ \E i \in DOMAIN pending : getSession_then(i)
  \/ \E s \in {0} \cup AuthUsers : onAuthStateChange(s)
  \/ \E i \in DOMAIN pending : onAuthStateChange_timeout(i)
  \/ \E i \in DOMAIN pending : fetchOrCreateUser_select(i)
  \/ \E i \in DOMAIN pending : fetchOrCreateUser_insert(i)
  \/ signOut
  \/ \E i \in DOMAIN pending : signOut_resume(i)

SpecAuth == InitAuth /\ [][NextAuth]_vars

\* ------------------------------------------------------------ guest search
MaxTerms == 2

SearchTerms == {<<>>, <<"a">>, <<"a", "a">>, <<" ", "a">>}

\* name.ilike.%term%: the text holds the term (the alphabet has one case)
ilike(text, term) ==
  \E i \in 0..(Len(text) - Len(term)) : SubSeq(text, i + 1, i + Len(term)) = term

\* the query refresh builds for a search term; the rows hold no document
GuestsSearch(value) ==
  LET searchTerm == trim(value)
  IN  IF searchTerm # <<>>
        THEN {g \in GuestsQuery : ilike(guests[g].name, searchTerm)}
        ELSE GuestsQuery

\* refresh after its await: setGuests with the rows of its own query
useGuests_response(o, i, ok) ==
  /\ guestsList' = IF ok
                     THEN [guestsList EXCEPT ![o] = GuestsSearch(refreshes[o][i].term)]
                     ELSE guestsList
  /\ refreshes' = [refreshes EXCEPT ![o][i].step = IF ok THEN "done" ELSE "error"]

\* setSearch with a new value: refresh is rebuilt for it and useEffect runs it,
\* which sends the query.
setSearch(o, value) ==
  /\ page[o] = "guests"
  /\ value # search[o]
  /\ Len(refreshes[o]) < MaxTerms
  /\ search' = [search EXCEPT ![o] = value]
  /\ refreshes' = [refreshes EXCEPT ![o] = Append(@, [term |-> value, step |-> "query"])]
  /\ Quiet
  /\ UNCHANGED <<auth, inFlight, store, clock, page, lists>>

\* a query of refresh is answered
useGuests_refresh(o, i) ==
  /\ refreshes[o][i].step = "query"
  /\ \E ok \in BOOLEAN : useGuests_response(o, i, ok)
  /\ Quiet
  /\ UNCHANGED <<auth, inFlight, search, store, clock, page, reservationsList,
                 arrivals, departures, formRooms, roomMap, loading, error>>

InitSearch ==
  /\ InitRooms
  /\ reservations = <<>>
  /\ now = 4
  /\ tz = 0
  /\ InitClients

NextSearch ==
  \/ \E o \in Operators : page[o] = "none" /\ Open(o, "guests")
  \/ \E o \in Operators : \E value \in SearchTerms : setSearch(o, value)
  \/ \E o \in Operators : \E i \in DOMAIN refreshes[o] : useGuests_refresh(o, i)

SpecSearch == InitSearch /\ [][NextSearch]_vars

\* ------------------------------------------------- the Today page's buttons
MaxClicks == 2

\* renderArrivalActions offering the buttons whatever the status shown
renderArrivalActions_anyStatus(o, rid) == {"checkIn", "markNoShow"}

\* renderArrivalActions: the buttons a row of arrivals shows
renderArrivalActions(o, rid) ==
  IF arrivals[o][rid].status = "booked" THEN {"checkIn", "markNoShow"} ELSE {}

\* renderDepartureActions: the button a row of departures shows
renderDepartureActions(o, rid) ==
  IF departures[o][rid].status = "checked_in" THEN {"checkOut"} ELSE {}

\* disabled={processingId === reservationId}
isProcessing(o, rid) == processingId[o] = rid

\* a handler of the page in flight: what it does, on which row, and the
\* request it waits for
Handler(op, rid, room, step) == [op |-> op, rid |-> rid, room |-> room, step |-> step]

Without(q, i) == [k \in 1..(Len(q) - 1) |-> IF k < i THEN q[k] ELSE q[k + 1]]

\* a handler awaits its next request; the others stay as they are
HandlerGoes(o, i, h) ==
  /\ inFlight' = [inFlight EXCEPT ![o] =
       IF i > Len(@) THEN Append(@, h) ELSE [@ EXCEPT ![i] = h]]
  /\ ended' = NoCall

\* a handler ends: its finally block runs setProcessingId(null)
HandlerEnds(o, i, h, outcome) ==
  /\ inFlight' = [inFlight EXCEPT ![o] = IF i > Len(@) THEN @ ELSE Without(@, i)]
  /\ ended' = [by |-> o, outcome |-> outcome, trace |-> <<h.step>>,
               args |-> [NoArgs EXCEPT !.op = h.op, !.rid = h.rid, !.room = h.room]]
  /\ processingId' = [processingId EXCEPT ![o] = 0]

\* a click on a button that is shown and enabled: setProcessingId(id), then the
\* hook's action sends its first request, the write of the reservation's status
Hoy_click(o, h, status) ==
  /\ page[o] = "hoy"
  /\ ~isProcessing(o, h.rid)
  /\ Len(inFlight[o]) < MaxClicks
  /\ \E ok \in BOOLEAN :
       IF ok
       THEN /\ reservations' = updateReservationStatus(h.rid, status)
            /\ processingId' = [processingId EXCEPT ![o] = h.rid]
            /\ HandlerGoes(o, Len(inFlight[o]) + 1, h)
       ELSE /\ reservations' = reservations
            /\ HandlerEnds(o, Len(inFlight[o]) + 1,
                           [h EXCEPT !.step = "reservation"], "store_error")
  /\ UNCHANGED <<auth, search, refreshes, rooms, guests, clock, page, pc, args, trace,
                 calls, lists>>

Hoy_handleCheckIn(o, rid) ==
  /\ rid \in DOMAIN arrivals[o]
  /\ "checkIn" \in renderArrivalActions(o, rid)
  /\ Hoy_click(o, Handler("checkIn", rid, arrivals[o][rid].roomId, "room"), "checked_in")

Hoy_handleNoShow(o, rid) ==
  /\ rid \in DOMAIN arrivals[o]
  /\ "markNoShow" \in renderArrivalActions(o, rid)
  /\ Hoy_click(o, Handler("markNoShow", rid, arrivals[o][rid].roomId, "refresh"), "no_show")

Hoy_handleCheckOut(o, rid) ==
  /\ rid \in DOMAIN departures[o]
  /\ "checkOut" \in renderDepartureActions(o, rid)
  /\ Hoy_click(o, Handler("checkOut", rid, departures[o][rid].roomId, "room"), "checked_out")

\* checkIn and checkOut after the first await: the write of the room's status
Hoy_room(o, i) ==
  /\ inFlight[o][i].step = "room"
  /\ \E ok \in BOOLEAN :
       IF ok
       THEN /\ rooms' = updateRoomStatus(inFlight[o][i].room,
                 IF inFlight[o][i].op = "checkIn" THEN "occupied" ELSE "cleaning")
            /\ HandlerGoes(o, i, [inFlight[o][i] EXCEPT !.step = "refresh"])
            /\ UNCHANGED processingId
       ELSE /\ rooms' = rooms
            /\ HandlerEnds(o, i, inFlight[o][i], "store_error")
  /\ UNCHANGED <<auth, search, refreshes, guests, reservations, clock, page, pc, args,
                 trace, calls, lists>>

\* await refresh() of the hook the action belongs to, then the handler's finally
Hoy_refreshed(o, i) ==
  /\ inFlight[o][i].step = "refresh"
  /\ \E ok \in BOOLEAN :
       IF inFlight[o][i].op = "checkOut"
       THEN refreshDepartures(o, ok) /\ UNCHANGED <<arrivals, loading, error>>
       ELSE refreshArrivals(o, ok) /\ UNCHANGED departures
  /\ HandlerEnds(o, i, inFlight[o][i], "ok")
  /\ UNCHANGED <<auth, search, refreshes, store, clock, page, pc, args, trace, calls,
                 reservationsList, formRooms, guestsList, roomMap>>

TodayPage(o) == IF o = "op1" THEN "reservas" ELSE "hoy"

\* Day 2 at the front desk: reservation 1 arrives today on room r1; reservation
\* 2 arrives today on room r2 or has been staying there and departs today.
InitToday ==
  /\ reservations \in
       {<<BookedRow("r1", "g1", 2, 3, 100), x>> :
          x \in {BookedRow("r2", "g2", 2, 3, 100),
                 [BookedRow("r2", "g2", 1, 2, 100) EXCEPT !.status = "checked_in"]}}
  /\ rooms = [r \in RoomIds |->
       RoomRow(r, IF \E i \in ReservationIds :
                       reservations[i].room_id = r /\ reservations[i].status = "checked_in"
                  THEN "occupied" ELSE "available")]
  /\ guests = [g \in GuestIds |-> GuestRow(g)]
  /\ now = 4
  /\ tz = 0
  /\ InitClients

NextToday ==
  \/ \E o \in Operators : page[o] = "none" /\ Open(o, TodayPage(o))
  \/ \E o \in Operators : Hoy_refresh(o)
  \/ \E o \in Operators : \E rid \in ReservationIds : Hoy_handleCheckIn(o, rid)
  \/ \E o \in Operators : \E rid \in ReservationIds : Hoy_handleNoShow(o, rid)
  \/ \E o \in Operators : \E rid \in ReservationIds : Hoy_handleCheckOut(o, rid)
  \/ \E o \in Operators : \E i \in DOMAIN inFlight[o] : Hoy_room(o, i)
  \/ \E o \in Operators : \E i \in DOMAIN inFlight[o] : Hoy_refreshed(o, i)

SpecToday == InitToday /\ [][NextToday]_vars

\* ------------------------------------------------------------------ claims
Range(q) == {q[i] : i \in DOMAIN q}

ValidTransitions ==
  {<<"booked", "checked_in">>, <<"booked", "cancelled">>, <<"booked", "no_show">>,
   <<"checked_in", "checked_out">>}

\* operator o calls the action that moves reservation rid to status `to`
Attempts(o, rid, to) ==
  \/ to = "checked_in" /\ checkIn(o, rid)
  \/ to = "checked_out" /\ checkOut(o, rid)
  \/ to = "no_show" /\ markNoShow(o, rid)
  \/ to = "cancelled" /\ cancelReservation(o, rid)

Rejected == ended'.outcome = "state_conflict" /\ reservations' = reservations

\* C1: a reservation's stored status changes only along booked->checked_in,
\* booked->cancelled, booked->no_show and checked_in->checked_out; a call that
\* attempts any other transition is rejected with a state-conflict error and
\* leaves the stored status unchanged.
C1_OnlyValidTransitions ==
  [][/\ \A i \in DOMAIN reservations :
          reservations'[i].status # reservations[i].status
            => <<reservations[i].status, reservations'[i].status>> \in ValidTransitions
     /\ \A o \in Operators, rid \in DOMAIN reservations, to \in RESERVATION_STATUSES :
          (Attempts(o, rid, to) /\ <<reservations[rid].status, to>> \notin ValidTransitions)
            => Rejected]_vars

\* C2: cancelReservation writes status = cancelled only if the stored status at
\* the time of the write is booked; for any other stored status it throws the
\* state-conflict error and writes nothing, whatever the loaded list holds.
C2_CancelOnlyFromBooked ==
  [][\A o \in Operators, rid \in DOMAIN reservations :
       (cancelReservation(o, rid) /\ reservations[rid].status # "booked")
         => (Rejected /\ ended'.trace = <<>>)]_vars

BothOrNeither(tr) == ("res_write_ok" \in Range(tr)) <=> ("room_write_ok" \in Range(tr))

\* C3: once a checkIn call has ended, either both its writes were applied
\* (reservation checked_in, room occupied) or neither row was changed by it.
C3_CheckInTogether ==
  ended.args.op = "checkIn" => BothOrNeither(ended.trace)

\* C4: checkOut is applied only to a reservation whose stored status is
\* checked_in, and once the call has ended either both its writes were applied
\* (reservation checked_out, room cleaning) or neither row was changed by it.
C4_CheckOutTogether ==
  [][/\ \A o \in Operators, rid \in DOMAIN reservations :
          (checkOut(o, rid) /\ reservations' # reservations)
            => reservations[rid].status = "checked_in"
     /\ ended'.args.op = "checkOut" => BothOrNeither(ended'.trace)]_vars

\* C8: check-in and check-out issue the reservation write first and the room
\* write second, without rollback: a failed reservation write ends the call
\* with no room write and no row changed; a failed room write ends the call
\* with the error thrown, the reservation write kept, the room as it was and no
\* refresh.
C8_TwoWritesNoRollback ==
  [][(ended'.args.op \in {"checkIn", "checkOut"} /\ ended'.outcome # "state_conflict")
       => /\ ended'.trace \in
               {<<"res_write_err">>, <<"res_write_ok", "room_write_err">>,
                <<"res_write_ok", "room_write_ok", "refresh_ok">>,
                <<"res_write_ok", "room_write_ok", "refresh_err">>}
          /\ ended'.outcome = (IF Len(ended'.trace) = 3 THEN "ok" ELSE "store_error")
          /\ (Len(ended'.trace) < 3)
               => (reservations' = reservations /\ rooms' = rooms /\ lists' = lists)]_vars

\* a check-in whose room write failed: the reservation is checked in, the room is not occupied
C8_Witness ==
  /\ ended.args.op = "checkIn"
  /\ ended.trace = <<"res_write_ok", "room_write_err">>
  /\ ended.outcome = "store_error"
  /\ reservations[ended.args.rid].status = "checked_in"
  /\ rooms[ended.args.room].status # "occupied"

\* the rows the step inserted
Inserted == {i \in DOMAIN reservations' : i \notin DOMAIN reservations}

\* the operation of the call the step belongs to
StepOp ==
  IF ended'.by # "none" THEN ended'.args.op
  ELSE IF \E o \in Operators : pc'[o] # pc[o]
       THEN args'[CHOOSE o \in Operators : pc'[o] # pc[o]].op
       ELSE "none"

\* C5: every row inserted by createReservation, in either version of the hook,
\* or by the Reservas page's handleCreate has status booked, whatever status
\* the caller's object carries.
C5_CreatedBooked ==
  [][(StepOp \in {"createReservation", "createReservation_payload", "handleCreate"})
       => (\A i \in Inserted : reservations'[i].status = "booked")]_vars

\* a creation whose caller supplied status checked_in has ended and its row is booked
C5_Witness ==
  /\ ended.args.op \in {"createReservation", "createReservation_payload"}
  /\ ended.args.status = "checked_in"
  /\ ended.outcome = "ok"
  /\ Len(reservations) > 0
  /\ reservations[Len(reservations)].status = "booked"

\* C6: every stored reservation has check_out_date strictly later than
\* check_in_date, whichever path created it: the hooks, the form followed by
\* handleCreate, or the direct inserts of the debug page.
C6_DatesOrdered ==
  \A i \in DOMAIN reservations :
    reservations[i].check_out_date > reservations[i].check_in_date

\* test 4 of the debug page sent reversed dates, the store refused them, and a
\* row of another path is stored
C6_Witness ==
  /\ ended.args.op = "runTestReservation"
  /\ ended.args.co < ended.args.ci
  /\ ended.outcome = "test_passed"
  /\ Len(reservations) > 0

C9_ValidationBeforeStore ==
  [][/\ ( /\ ended'.args.op \in {"createReservation", "handleCreate"}
          /\ ended'.args.co <= ended'.args.ci )
          => ( /\ ended'.outcome = "validation"
               /\ ended'.trace = <<>>
               /\ store' = store
               /\ lists' = lists )
     /\ \A o \in Operators :
          (pc'[o] # "idle" /\ args'[o].op \in {"createReservation", "handleCreate"})
            => args'[o].co > args'[o].ci]_vars

\* createReservation called with equal dates has ended with the validation error
C9_Witness ==
  /\ ended.args.op = "createReservation"
  /\ ended.args.co = ended.args.ci
  /\ ended.args.ci # 0
  /\ ended.outcome = "validation"
  /\ ended.trace = <<>>

\* C10: every reservation created by createReservation or by handleCreate has
\* base_price and final_price equal to the base_price the referenced room has
\* in the store at the moment of the insert, and discount 0; when the room
\* lookup fails nothing is inserted.
C10_PriceOfRoom ==
  [][/\ (StepOp \in {"createReservation", "handleCreate"})
          => (\A i \in Inserted :
               /\ reservations'[i].base_price = rooms[reservations'[i].room_id].base_price
               /\ reservations'[i].final_price = rooms[reservations'[i].room_id].base_price
               /\ reservations'[i].discount = 0)
     /\ (ended'.trace = <<"room_lookup_err">>) => (reservations' = reservations)]_vars

\* C11: updateRoom and updateGuest write exactly the supplied fields of the row
\* of the given id and leave every other field and every other row unchanged;
\* with no field supplied they send no request, trigger no refresh and succeed.
WritesExactly(table, id, payload, tag) ==
  /\ \A x \in DOMAIN table : x # id => table'[x] = table[x]
  /\ IF DOMAIN payload = {}
     THEN /\ table' = table
          /\ lists' = lists
          /\ ended' # NoCall /\ ended'.outcome = "ok" /\ ended'.trace = <<>>
     ELSE \/ /\ table' = table
             /\ ended' # NoCall /\ ended'.outcome = "store_error"
          \/ /\ ended' = NoCall
             /\ trace'[tag] # <<>>
             /\ \A f \in DOMAIN table[id] :
                  table'[id][f] = IF f \in DOMAIN payload THEN payload[f] ELSE table[id][f]

C11_PartialUpdate ==
  [][/\ \A o \in Operators : \A id \in RoomIds : \A payload \in RoomPayloads :
         updateRoom(o, id, payload) =>
           (WritesExactly(rooms, id, payload, o) /\ UNCHANGED <<guests, reservations>>)
     /\ \A o \in Operators : \A id \in GuestIds : \A payload \in GuestPayloads :
         updateGuest(o, id, payload) =>
           (WritesExactly(guests, id, payload, o) /\ UNCHANGED <<rooms, reservations>>)]_vars

C11_Witness ==
  /\ rooms["r1"].status = "maintenance" /\ rooms["r1"].base_price = 100
  /\ rooms["r1"].number = RoomRow("r1", "available").number
  /\ rooms["r2"] = RoomRow("r2", "available")
  /\ ended.args.op = "updateGuest" /\ ended.outcome = "ok" /\ ended.trace = <<>>

\* C18: whenever a refresh of the Today hook terminates, loading is false and,
\* when the refresh did not load the list, error holds a message; whenever
\* handleCheckIn, handleCheckOut or handleNoShow terminates, processingId is null.
\* a step in which a refresh of the Today hook of operator o terminates: the page
\* mounts the hook or reloads, or the refresh awaited by checkIn or markNoShow
\* returns; only a refresh sets loading, error and arrivals
RefreshTerminates(o) ==
  /\ page'[o] = "hoy"
  /\ \/ pc[o] \in {"checkIn_refresh", "markNoShow_refresh"} /\ pc'[o] = "idle"
     \/ page[o] # "hoy"
     \/ loading'[o] # loading[o]
     \/ error'[o] # error[o]
     \/ arrivals'[o] # arrivals[o]

C18_RefreshAndHandlersTerminate ==
  [][/\ \A o \in Operators :
          RefreshTerminates(o)
            => (/\ loading'[o] = FALSE
                /\ (arrivals'[o] # ArrivalsQuery') => (error'[o] = "load_error"))
     /\ (ended' # NoCall /\ ended'.args.op \in HoyHandlers)
          => (processingId'[ended'.by] = 0)]_vars

C18_Witness ==
  /\ ended.by = "op2"
  /\ ended.args.op \in HoyHandlers
  /\ ended.outcome = "store_error"
  /\ processingId["op2"] = 0
  /\ loading["op2"] = FALSE
  /\ error["op2"] = "load_error"

\* C19: there is no optimistic-concurrency check.  A cancel by an operator whose
\* list shows the reservation as booked and a check-in are never rejected for
\* the stored status, and each accepted reservation write leaves its own status
\* stored whatever was stored before: the last write to reach the store wins.
ShowsBooked(o, rid) ==
  \E k \in DOMAIN reservationsList[o] :
    reservationsList[o][k].id = rid /\ reservationsList[o][k].status = "booked"

C19_LastWriteWins ==
  [][/\ (ended' # NoCall /\ ended'.args.op = "cancelReservation"
           /\ ShowsBooked(ended'.by, ended'.args.rid))
          => (ended'.outcome # "state_conflict")
     /\ (ended' # NoCall /\ ended'.args.op = "checkIn")
          => (ended'.outcome \in {"ok", "store_error"})
     /\ \A o \in Operators :
          /\ (pc[o] = "idle" /\ pc'[o] = "cancel_refresh")
               => (reservations'[args'[o].rid].status = "cancelled")
          /\ (pc[o] = "idle" /\ pc'[o] = "checkIn_room")
               => (reservations'[args'[o].rid].status = "checked_in")
          /\ (pc[o] = "idle" /\ pc'[o] = "idle" /\ ended' # NoCall /\ ended'.by = o
                /\ ended'.args.op \in {"cancelReservation", "checkIn"})
               => (reservations' = reservations)]_vars

\* both writes were accepted, the cancel first and the check-in last
C19_Witness ==
  /\ pc["op1"] = "cancel_refresh"
  /\ pc["op2"] = "checkIn_room"
  /\ args["op1"].rid = args["op2"].rid
  /\ ShowsBooked("op1", args["op1"].rid)
  /\ reservations[args["op1"].rid].status = "checked_in"

C12_RoomStatusFrame ==
  [][/\ \A r \in RoomIds :
          (rooms'[r].status # rooms[r].status)
            => \/ StepOp = "checkIn" /\ rooms'[r].status = "occupied"
               \/ StepOp = "checkOut" /\ rooms'[r].status = "cleaning"
               \/ StepOp = "markAsClean" /\ rooms'[r].status = "available"
               \/ StepOp = "updateRoom"
     /\ (StepOp \in {"createReservation", "cancelReservation", "markNoShow", "archiveGuest"})
          => (\A r \in RoomIds : rooms'[r].status = rooms[r].status)]_vars

\* a no-show recorded on a reservation whose room was occupied: the room stays occupied
C12_Witness ==
  /\ ended.args.op = "markNoShow"
  /\ ended.outcome = "ok"
  /\ reservations[ended.args.rid].status = "no_show"
  /\ rooms[reservations[ended.args.rid].room_id].status = "occupied"

\* C13: a room whose stored status is maintenance never has its status changed
\* by check-in, check-out, cancel or no-show; maintenance is entered and left
\* only through updateRoom.
C13_MaintenanceOnlyByEdit ==
  [][\A r \in RoomIds :
       /\ (rooms[r].status = "maintenance"
             /\ StepOp \in {"checkIn", "checkOut", "cancelReservation", "markNoShow"})
            => (rooms'[r].status = "maintenance")
       /\ ((rooms[r].status = "maintenance") # (rooms'[r].status = "maintenance"))
            => (StepOp = "updateRoom")]_vars

\* C14: mark-clean is the transition cleaning -> available: after the write of
\* markAsClean the room's stored status is available, and the action changes a
\* room's status only when the status stored at the time of the write is cleaning.
C14_MarkCleanFromCleaning ==
  [][/\ \A o \in Operators :
          (pc[o] = "idle" /\ pc'[o] = "markAsClean_refresh")
            => (rooms'[args'[o].room].status = "available")
     /\ \A r \in RoomIds :
          (StepOp = "markAsClean" /\ rooms'[r].status # rooms[r].status)
            => (rooms[r].status = "cleaning")]_vars

\* C15: no client operation deletes a reservation row: the stored reservation
\* ids only grow.  Archiving a guest changes only that guest's is_active and
\* archived_at, and after the refresh that follows the guest is absent from the
\* active listing while every one of its reservations is still stored.
ReservationsOf(g) == {i \in ReservationIds : reservations[i].guest_id = g}

C15_ArchiveKeepsReservations ==
  [][/\ DOMAIN reservations \subseteq DOMAIN reservations'
     /\ \A o \in Operators :
          (pc[o] = "archive_update" /\ pc'[o] # "archive_update")
            => /\ reservations' = reservations
               /\ rooms' = rooms
               /\ \A g \in GuestIds :
                    /\ (g # args[o].guest) => (guests'[g] = guests[g])
                    /\ \A f \in DOMAIN guests[g] \ {"is_active", "archived_at"} :
                         guests'[g][f] = guests[g][f]
     /\ (ended' # NoCall /\ ended'.args.op = "archiveGuest"
           /\ ended'.trace = <<"check_ok", "guest_write_ok", "refresh_ok">>)
          => /\ ended'.args.guest \notin guestsList'[ended'.by]
             /\ ReservationsOf(ended'.args.guest) \subseteq DOMAIN reservations'
             /\ \A i \in ReservationsOf(ended'.args.guest) :
                  reservations'[i] = reservations[i]]_vars

C15_Witness ==
  /\ ended.args.op = "archiveGuest"
  /\ ended.trace = <<"check_ok", "guest_write_ok", "refresh_ok">>
  /\ ~guests[ended.args.guest].is_active
  /\ ended.args.guest \notin guestsList[ended.by]
  /\ ReservationsOf(ended.args.guest) # {}

\* C16: after a successful refresh of the reservations list, the list holds
\* every stored reservation, whatever its status and whether or not its room or
\* guest is archived, each with the number of its room and the name of its
\* guest, ordered by check-in date descending.
ReservationsRefreshed(o) ==
  \/ /\ pc[o] \in {"cancel_refresh", "create_refresh"}
     /\ ended' # NoCall /\ ended'.by = o
     /\ ended'.trace[Len(ended'.trace)] = "refresh_ok"
  \/ /\ page'[o] = "reservas"
     /\ reservationsList'[o] # reservationsList[o]
     /\ reservationsList'[o] # <<>>

C16_ListComplete ==
  [][\A o \in Operators :
       ReservationsRefreshed(o) =>
         LET list == reservationsList'[o]
         IN /\ {list[k].id : k \in DOMAIN list} = DOMAIN reservations'
            /\ Len(list) = Len(reservations')
            /\ \A k \in DOMAIN list :
                 /\ list[k].status = reservations'[list[k].id].status
                 /\ list[k].roomNumber = rooms'[reservations'[list[k].id].room_id].number
                 /\ list[k].guestName = guests'[reservations'[list[k].id].guest_id].name
            /\ \A j, k \in DOMAIN list :
                 (j < k) => (list[j].checkInDate >= list[k].checkInDate)]_vars

\* C17: a room form submitted with a blank number, an empty type or a negative
\* base_price, and a guest form submitted with a blank name or a malformed
\* email, set a validation error, do not invoke onSubmit, and nothing reaches
\* the store.
Blank(t) == \A k \in DOMAIN t : t[k] = " "

\* texts that are no e-mail address: no "@", nothing before the "@", no "."
\* after the "@", or nothing after the one "." that follows the domain
Malformed(t) ==
  /\ ~Blank(t)
  /\ \/ \A k \in DOMAIN t : t[k] # "@"
     \/ t[1] = "@"
     \/ \A i, j \in DOMAIN t : (t[i] = "@" /\ t[j] = ".") => (j < i)
     \/ \A i, j \in DOMAIN t : (t[i] = "@" /\ t[j] = "." /\ i + 1 < j) => (j = Len(t))

RefusedInput(a) ==
  \/ /\ a.op = "RoomForm_handleSubmit"
     /\ Blank(a.number) \/ a.type = <<>> \/ a.price < 0
  \/ /\ a.op = "GuestForm_handleSubmit"
     /\ Blank(a.name) \/ Malformed(a.email)

C17_InvalidFormsStopped ==
  [][\A o \in Operators :
       LET a == IF pc'[o] # "idle" THEN args'[o] ELSE ended'.args
       IN (pc[o] = "idle" /\ (pc'[o] # "idle" \/ ended'.by = o) /\ RefusedInput(a))
            => /\ ended' # NoCall
               /\ ended'.outcome = "validation"
               /\ ended'.trace # <<>>
               /\ "onSubmit" \notin Range(ended'.trace)
               /\ store' = store]_vars

\* a guest form with a name and an address without its dot was refused
C17_Witness ==
  /\ ended.args.op = "GuestForm_handleSubmit"
  /\ ended.args.name = <<"a">>
  /\ ended.args.email = <<"a", "@", "a">>
  /\ ended.outcome = "validation"
  /\ ended.trace = <<"emailInvalid">>
  /\ guests["g1"].email = <<"a", "@", "a", ".", "a">>

\* C22: whenever no check-in or check-out is in flight, every reservation whose
\* stored status is checked_in references a room whose stored status is occupied.
C22_CheckedInRoomOccupied ==
  (\A o \in Operators :
     pc[o] \notin {"checkIn_room", "checkIn_refresh", "checkOut_room", "checkOut_refresh"})
    => \A i \in ReservationIds :
         (reservations[i].status = "checked_in")
           => (rooms[reservations[i].room_id].status = "occupied")

\* C23: in every reachable state at most one reservation per room has stored
\* status checked_in.
C23_OneCheckedInPerRoom ==
  \A i, j \in ReservationIds :
    (/\ reservations[i].status = "checked_in"
     /\ reservations[j].status = "checked_in"
     /\ reservations[i].room_id = reservations[j].room_id) => (i = j)

\* C25: no reservation is ever created that references a room or a guest with
\* is_active = false.
C25_CreatedForActive ==
  [][\A i \in Inserted :
       /\ rooms[reservations'[i].room_id].is_active
       /\ guests[reservations'[i].guest_id].is_active]_vars

\* C24: the check and the write of archiveGuest are atomic with respect to the
\* creation of reservations: the archive write is never applied while the
\* guest holds a booked or checked-in reservation that ends on the day of the
\* check or later.
C24_ArchiveAtomic ==
  [][\A o \in Operators :
       (pc[o] = "archive_update" /\ guests'[args[o].guest] # guests[args[o].guest])
         => (activeReservations(args[o].guest, args[o].today) = {})]_vars

\* C30: archiveGuest takes "today" as the caller's local date: a guest holding
\* a booked or checked-in reservation whose check_out_date is the caller's
\* local date is refused archival, whatever the offset from UTC.
C30_ArchiveUsesLocalDate ==
  [][\A o \in Operators :
       (pc[o] = "idle" /\ pc'[o] = "archive_update")
         => ~(\E i \in ReservationIds :
                /\ reservations[i].guest_id = args'[o].guest
                /\ reservations[i].status \in {"booked", "checked_in"}
                /\ reservations[i].check_out_date = localDate)]_vars

\* C26: when the listener and the getSession lookup both run fetchOrCreateUser
\* for the same auth user, at most one of the two issues an insert into users.
C26_OneInsertPerAuthUser ==
  \A i, j \in DOMAIN pending :
    (/\ pending[i].from = "getSession"
     /\ pending[j].from = "listener"
     /\ pending[i].user = pending[j].user
     /\ pending[i].user # 0)
      => (pending[i].issued + pending[j].issued <= 1)

\* C27: once every callback AuthProvider scheduled has run, currentUser is
\* set only when session is set; a fetchOrCreateUser that completes after a
\* sign-out leaves currentUser null.
AllRan == pending # <<>> /\ \A i \in DOMAIN pending : pending[i].step = "done"

C27_CurrentUserNeedsSession == AllRan => (currentUser # 0 => session # 0)

\* C28: once every refresh of useGuests has been answered, and answered without
\* error, the guests list is the result of the query for the current search
\* term.
AllAnswered(o) ==
  /\ refreshes[o] # <<>>
  /\ \A i \in DOMAIN refreshes[o] : refreshes[o][i].step = "done"

C28_ListForLatestSearch ==
  \A o \in Operators : AllAnswered(o) => (guestsList[o] = GuestsSearch(search[o]))

\* C29: on the Today page, while a handler for a reservation is in flight, the
\* buttons of that reservation are disabled.
C29_ButtonsDisabledWhileInFlight ==
  \A o \in Operators : \A i \in DOMAIN inFlight[o] : isProcessing(o, inFlight[o][i].rid)

\* C21: the Today page shows and starts check-in and no-show only for arrivals
\* displayed as booked and check-out only for departures displayed as
\* checked_in, and a list that a refresh has replaced shows for every row the
\* status stored for its reservation at that refresh.
Displayed(o, op, rid) ==
  IF op = "checkOut"
    THEN rid \in DOMAIN departures[o] /\ departures[o][rid].status = "checked_in"
    ELSE rid \in DOMAIN arrivals[o] /\ arrivals[o][rid].status = "booked"

C21_ActionsFollowDisplayedStatus ==
  [][\A o \in Operators :
       /\ \A rid \in DOMAIN arrivals[o] : \A op \in renderArrivalActions(o, rid) :
            op \in {"checkIn", "markNoShow"} /\ Displayed(o, op, rid)
       /\ \A rid \in DOMAIN departures[o] : \A op \in renderDepartureActions(o, rid) :
            op = "checkOut" /\ Displayed(o, op, rid)
       /\ (Len(inFlight'[o]) > Len(inFlight[o]))
            => LET h == inFlight'[o][Len(inFlight'[o])] IN Displayed(o, h.op, h.rid)
       /\ (ended'.by = o /\ ended'.trace = <<"reservation">>)
            => Displayed(o, ended'.args.op, ended'.args.rid)
       /\ (arrivals'[o] # arrivals[o])
            => \A rid \in DOMAIN arrivals'[o] :
                 arrivals'[o][rid].status = reservations[rid].status
       /\ (departures'[o] # departures[o])
            => \A rid \in DOMAIN departures'[o] :
                 departures'[o][rid].status = reservations[rid].status]_vars

\* A check-in started from the page has ended with its refresh: the row now
\* shows checked_in, as stored, and offers no action.
C21_Witness ==
  /\ ended.args.op = "checkIn"
  /\ ended.outcome = "ok"
  /\ ended.trace = <<"refresh">>
  /\ ended.args.rid \in DOMAIN arrivals[ended.by]
  /\ arrivals[ended.by][ended.args.rid].status = "checked_in"
  /\ reservations[ended.args.rid].status = "checked_in"
  /\ renderArrivalActions(ended.by, ended.args.rid) = {}

====
